---- MODULE Spec2Model ----
(***************************************************************************)
(* DSP bench (src/cpp/src/main.cc): a square-wave generator, a cascade of  *)
(* peaking-EQ biquads applied in place to a buffer, and the harness that   *)
(* sweeps the buffer length and reports the per-sample cost.               *)
(*                                                                         *)
(* Numbers.  Samples and coefficients are doubles in the program.  Here a  *)
(* sample is an integer counted in units of 0.5 (so +0.5 is 1 and -0.5 is  *)
(* -1) and a coefficient is a small integer; every sum and product is      *)
(* taken in the order the code takes it.  The quantities print_elapsed     *)
(* derives are positive reals built by multiplication and division only;   *)
(* they are kept exactly, as vectors of prime exponents.                   *)
(***************************************************************************)
EXTENDS Integers, Sequences, FiniteSets, TLC

VARIABLES
    cfg,            \* the run's fixed parameters (the #defines and literals of main)
    sqw,            \* SquareWave *sqw
    biquads,        \* vector<Biquad> biquads
    buf,            \* vector<double> *buf
    pc,             \* position in main
    l,              \* main: loop variable of the sweep
    buffer_len,     \* main: size_t buffer_len
    buffer_count,   \* main: unsigned int buffer_count
    i,              \* main: loop variable of the buffer loop
    f,              \* main: loop variable of the filter loop
    start,          \* main: the steady clock's reading when the trial's timing began
    report,         \* print_elapsed: what the trial's line reports
    out,            \* the buffers handed on after the cascade, in order (this trial)
    gen_buf,        \* the buffer as fill_buffer left it (this iteration)
    bq_before,      \* the filters as they were when fill_buffer returned
    iters,          \* iterations of the buffer loop run in this trial
    trials,         \* buffer lengths of the trials started so far
    gen_hist,       \* driver: samples generated since the generator's last reset
    in_hist,        \* driver: per filter, the inputs seen since its last reset
    out_hist,       \* driver: per filter, the outputs written since its last reset
    last_call,      \* driver: the last call made and what it was given
    dirty_reset,    \* driver: whether a reset has hit a used generator / a used filter
    ops             \* driver: fill_buffer and iir calls made so far

vars == <<cfg, sqw, biquads, buf, pc, l, buffer_len, buffer_count, i, f, start, report,
          out, gen_buf, bq_before, iters, trials,
          gen_hist, in_hist, out_hist, last_call, dirty_reset, ops>>

harnessVars == <<pc, l, buffer_len, buffer_count, i, f, start, report,
                 out, gen_buf, bq_before, iters, trials>>
driverVars == <<gen_hist, in_hist, out_hist, last_call, dirty_reset, ops>>

----------------------------------------------------------------------------
(* Program constants. *)

SAMPLE_RATE == 48000

\* a sweep one exponent shorter
BufferLenTestsTwelve == 13 - 1
BUFFER_LEN_TESTS == 13

\* a budget that is no power of two
SampleCountRound == 5 * 100000
SAMPLE_COUNT == 524288
FILTER_COUNT == 100
FIRST_LEN_TEST == 3
FREQUENCY == 50
NANOS_PER_SECOND == 1000000000

(* Bounds of the scaled runs. *)

MaxExp == 3        \* scaled sweep: exponents 0 .. MaxExp-1 at most
MaxTotal == 6      \* scaled sample budget: 1 .. MaxTotal
MaxFilters == 2    \* scaled cascade: 1 .. MaxFilters filters
MaxClock == 3      \* readings of the steady clock, in nanoseconds: 0 .. MaxClock
MaxLen == 2        \* driver: buffer lengths 0 .. MaxLen
MaxOps == 5        \* driver: number of fill_buffer and iir calls
MaxFill == 3       \* generator run: buffer lengths 1 .. MaxFill

----------------------------------------------------------------------------
(* Positive reals built from integers by * and /, kept exactly: the vector *)
(* of prime exponents of the value.                                        *)

MaxI(a, b) == IF a >= b THEN a ELSE b

\* every integer the program turns into a real is a product of these
PrimeBound == MaxI(MaxI(5, MaxClock), MaxI(MaxTotal, MaxFilters))

Primes == {p \in 2..PrimeBound : \A d \in 2..(p - 1) : p % d # 0}

RECURSIVE ExpOf(_, _)
ExpOf(n, p) == IF n % p = 0 THEN 1 + ExpOf(n \div p, p) ELSE 0

RInt(n) == [p \in Primes |-> ExpOf(n, p)]
RMul(a, b) == [p \in Primes |-> a[p] + b[p]]
RDiv(a, b) == [p \in Primes |-> a[p] - b[p]]

----------------------------------------------------------------------------
(* SquareWave *)

\* round(SAMPLE_RATE / frequency / 2.0): round to nearest, halves away from zero
SwitchSamples(frequency) == (SAMPLE_RATE + frequency) \div (2 * frequency)

SquareWave(frequency) ==
    [switch_samples |-> SwitchSamples(frequency), status |-> FALSE, progress |-> 0]

SquareWaveReset(s) == [s EXCEPT !.status = FALSE, !.progress = 0]

\* a generator that flips one sample late
FillSampleLate(s) ==
    LET t == IF s.progress > s.switch_samples
             THEN [s EXCEPT !.progress = 0, !.status = ~s.status]
             ELSE s
    IN  [v |-> IF t.status THEN 1 ELSE -1,
         sqw |-> [t EXCEPT !.progress = t.progress + 1]]

\* one turn of fill_buffer's loop: the sample written and the generator after it
FillSample(s) ==
    LET t == IF s.progress = s.switch_samples
             THEN [s EXCEPT !.progress = 0, !.status = ~s.status]
             ELSE s
    IN  [v |-> IF t.status THEN 1 ELSE -1,
         sqw |-> [t EXCEPT !.progress = t.progress + 1]]

RECURSIVE FillFrom(_, _, _)
FillFrom(b, s, k) ==
    IF k > Len(b) THEN [buf |-> b, sqw |-> s]
    ELSE LET r == FillSample(s)
         IN  FillFrom([b EXCEPT ![k] = r.v], r.sqw, k + 1)

FillBuffer(b, s) == FillFrom(b, s, 1)

----------------------------------------------------------------------------
(* Biquad *)

\* The values pow, sin and cos give are not computed here: a filter's
\* coefficients are one of these tuples, chosen per gain sign when the run is set up.
CoefSet ==
    { [b0 |-> 2, b1 |-> -1, b2 |-> 1, a2 |-> -1],
      [b0 |-> 1, b1 |-> 1, b2 |-> -1, a2 |-> 1] }

PeakEq(eq, gain_positive) ==
    LET c == eq[gain_positive]
    IN  [b0 |-> c.b0, b1 |-> c.b1, b2 |-> c.b2, a1 |-> c.b1, a2 |-> c.a2,
         x1 |-> 0, x2 |-> 0, y1 |-> 0, y2 |-> 0]

\* a reset that forgets y2
BiquadResetKeepsY2(bq) == [bq EXCEPT !.x1 = 0, !.x2 = 0, !.y1 = 0]

BiquadReset(bq) == [bq EXCEPT !.x1 = 0, !.x2 = 0, !.y1 = 0, !.y2 = 0]

\* a loop that stops one filter early
ResetBiquadsButLast(bqs) ==
    [k \in DOMAIN bqs |-> IF k < Len(bqs) THEN BiquadReset(bqs[k]) ELSE bqs[k]]

ResetBiquads(bqs) == [k \in DOMAIN bqs |-> BiquadReset(bqs[k])]

\* the filters main builds: gain +2 dB, -2 dB, +2 dB, ...
BuildBiquads(eq, n) == [k \in 1..n |-> PeakEq(eq, k % 2 = 1)]

\* x1 is overwritten before x2 takes its value
IirSampleStale(bq, x) ==
    LET y == (bq.b0 * x) + (bq.b1 * bq.x1) + (bq.b2 * bq.x2)
             - (bq.a1 * bq.y1) - (bq.a2 * bq.y2)
    IN  [y |-> y, bq |-> [bq EXCEPT !.x2 = x, !.x1 = x, !.y2 = bq.y1, !.y1 = y]]

\* one turn of iir's loop on a slot holding x: the value written and the filter after it
IirSample(bq, x) ==
    LET y == (bq.b0 * x) + (bq.b1 * bq.x1) + (bq.b2 * bq.x2)
             - (bq.a1 * bq.y1) - (bq.a2 * bq.y2)
    IN  [y |-> y, bq |-> [bq EXCEPT !.x2 = bq.x1, !.x1 = x, !.y2 = bq.y1, !.y1 = y]]

RECURSIVE IirFrom(_, _, _)
IirFrom(b, bq, k) ==
    IF k > Len(b) THEN [buf |-> b, bq |-> bq]
    ELSE LET r == IirSample(bq, b[k])
         IN  IirFrom([b EXCEPT ![k] = r.y], r.bq, k + 1)

\* a filter whose memory does not outlive the call
IirForgetful(b, bq) == IirFrom(b, BiquadReset(bq), 1)

Iir(b, bq) == IirFrom(b, bq, 1)

----------------------------------------------------------------------------
(* print_elapsed *)

\* the real-time factor taken from the cost of a sample through all the filters
PrintElapsedAllFilters(end, start_time, filter_count, sample_count) ==
    LET elapsed == end - start_time
        duration == RDiv(RDiv(RInt(elapsed), RInt(filter_count)), RInt(sample_count))
        all_filters == RMul(duration, RInt(filter_count))
        realtime == RMul(RDiv(RDiv(RInt(1), all_filters), RInt(SAMPLE_RATE)),
                         RInt(NANOS_PER_SECOND))
    IN  [elapsed |-> elapsed, duration |-> duration, realtime |-> realtime]

\* `end` is the clock's reading on entry; SAMPLE_COUNT is sample_count
PrintElapsed(end, start_time, filter_count, sample_count) ==
    LET elapsed == end - start_time
        duration == RDiv(RDiv(RInt(elapsed), RInt(filter_count)), RInt(sample_count))
        realtime == RMul(RDiv(RDiv(RInt(1), duration), RInt(SAMPLE_RATE)),
                         RInt(NANOS_PER_SECOND))
    IN  [elapsed |-> elapsed, duration |-> duration, realtime |-> realtime]

----------------------------------------------------------------------------
(* main *)

RECURSIVE Pow2(_)
Pow2(e) == IF e = 0 THEN 1 ELSE 2 * Pow2(e - 1)

BufferLen(e) == Pow2(e)

BufferCount(sample_count, len) == sample_count \div len

Zeros(n) == [k \in 1..n |-> 0]

NoReport == [elapsed |-> 0]

\* the parameters of the program as written
RealCfg ==
    [first_len_test |-> FIRST_LEN_TEST, len_tests |-> BUFFER_LEN_TESTS,
     sample_count |-> SAMPLE_COUNT, filter_count |-> FILTER_COUNT,
     frequency |-> FREQUENCY, eq |-> [g \in BOOLEAN |-> CHOOSE c \in CoefSet : c.b0 = 2]]

\* scaled parameters: short sweeps from buffer length 1, small budgets, few filters,
\* half periods of 1, 2 and 3 samples
ScaledFrequencies == {SAMPLE_RATE \div 2, SAMPLE_RATE \div 4, SAMPLE_RATE \div 6}

ScaledCfgs ==
    [first_len_test : {0}, len_tests : 1..MaxExp, sample_count : 1..MaxTotal,
     filter_count : 1..MaxFilters, frequency : ScaledFrequencies,
     eq : [BOOLEAN -> CoefSet]]

InitWith(c) ==
    /\ cfg = c
    /\ sqw = SquareWave(c.frequency)
    /\ biquads = BuildBiquads(c.eq, c.filter_count)
    /\ buf = <<>>
    /\ pc = "for_l"
    /\ l = c.first_len_test
    /\ buffer_len = 0
    /\ buffer_count = 0
    /\ i = 0
    /\ f = 0
    /\ start = 0
    /\ report = NoReport
    /\ out = <<>>
    /\ gen_buf = <<>>
    /\ bq_before = <<>>
    /\ iters = 0
    /\ trials = <<>>
    /\ gen_hist = <<>>
    /\ in_hist = [k \in 1..c.filter_count |-> <<>>]
    /\ out_hist = [k \in 1..c.filter_count |-> <<>>]
    /\ last_call = [op |-> "none"]
    /\ dirty_reset = [sqw |-> FALSE, biquads |-> FALSE]
    /\ ops = 0

\* lines 155-168: the sweep's loop test, then the trial's set-up
TrialSetUp ==
    /\ pc = "for_l"
    /\ l < cfg.len_tests
    /\ buffer_len' = BufferLen(l)
    /\ buffer_count' = BufferCount(cfg.sample_count, BufferLen(l))
    /\ trials' = Append(trials, BufferLen(l))
    /\ i' = 0
    /\ iters' = 0
    /\ pc' = "clock"
    /\ UNCHANGED <<cfg, l, f, start, report>>

StartTrial ==
    /\ TrialSetUp
    /\ buf' = Zeros(BufferLen(l))
    /\ sqw' = SquareWaveReset(sqw)
    /\ biquads' = ResetBiquads(biquads)
    /\ out' = <<>>
    /\ gen_buf' = <<>>
    /\ bq_before' = <<>>
    /\ UNCHANGED driverVars

\* lines 174-175: the steady clock is read
StartClock ==
    /\ pc = "clock"
    /\ start' \in 0..(MaxClock - 1)
    /\ pc' = "for_i"
    /\ UNCHANGED <<cfg, sqw, biquads, buf, l, buffer_len, buffer_count, i, f, report,
                   out, gen_buf, bq_before, iters, trials>>
    /\ UNCHANGED driverVars

\* a loop that runs once too often
BufferLoopCondInclusive == i <= buffer_count

\* line 177: the buffer loop's test
BufferLoopCond == i < buffer_count

\* lines 177-178: the buffer loop goes on, fill_buffer
Fill ==
    /\ pc = "for_i"
    /\ BufferLoopCond
    /\ LET r == FillBuffer(buf, sqw)
       IN  /\ buf' = r.buf
           /\ sqw' = r.sqw
           /\ gen_buf' = r.buf
    /\ bq_before' = biquads
    /\ f' = 0
    /\ iters' = iters + 1
    /\ pc' = "for_f"
    /\ UNCHANGED <<cfg, biquads, l, buffer_len, buffer_count, i, start, report, out, trials>>
    /\ UNCHANGED driverVars

\* the cascade taken from its last filter to its first
FilterReversed ==
    /\ pc = "for_f"
    /\ f < cfg.filter_count
    /\ LET r == Iir(buf, biquads[cfg.filter_count - f])
       IN  /\ buf' = r.buf
           /\ biquads' = [biquads EXCEPT ![cfg.filter_count - f] = r.bq]
    /\ f' = f + 1
    /\ UNCHANGED <<cfg, sqw, pc, l, buffer_len, buffer_count, i, start, report,
                   out, gen_buf, bq_before, iters, trials>>
    /\ UNCHANGED driverVars

\* lines 180-181: the filter loop's test, then iir on the next filter
Filter ==
    /\ pc = "for_f"
    /\ f < cfg.filter_count
    /\ LET r == Iir(buf, biquads[f + 1])
       IN  /\ buf' = r.buf
           /\ biquads' = [biquads EXCEPT ![f + 1] = r.bq]
    /\ f' = f + 1
    /\ UNCHANGED <<cfg, sqw, pc, l, buffer_len, buffer_count, i, start, report,
                   out, gen_buf, bq_before, iters, trials>>
    /\ UNCHANGED driverVars

\* lines 180-187: the filter loop ends, the buffer is handed on, i++
EndBuffer ==
    /\ pc = "for_f"
    /\ ~(f < cfg.filter_count)
    /\ out' = out \o buf
    /\ i' = i + 1
    /\ pc' = "for_i"
    /\ UNCHANGED <<cfg, sqw, biquads, buf, l, buffer_len, buffer_count, f, start, report,
                   gen_buf, bq_before, iters, trials>>
    /\ UNCHANGED driverVars

\* lines 177, 189: the buffer loop ends, print_elapsed
TrialReport ==
    /\ pc = "for_i"
    /\ ~BufferLoopCond
    /\ \E end \in (start + 1)..MaxClock :
           report' = PrintElapsed(end, start, cfg.filter_count, cfg.sample_count)
    /\ pc' = "printed"
    /\ UNCHANGED <<cfg, l, buffer_len, buffer_count, i, f, start, iters, trials>>

EndTrial ==
    /\ TrialReport
    /\ UNCHANGED <<sqw, biquads, buf, out, gen_buf, bq_before>>
    /\ UNCHANGED driverVars

\* lines 155, 195: l++
NextLen ==
    /\ pc = "printed"
    /\ l' = l + 1
    /\ start' = 0
    /\ report' = NoReport
    /\ pc' = "for_l"
    /\ UNCHANGED <<cfg, buffer_len, buffer_count, i, f, iters, trials>>

NextTrial ==
    /\ NextLen
    /\ UNCHANGED <<sqw, biquads, buf, out, gen_buf, bq_before>>
    /\ UNCHANGED driverVars

\* lines 155, 197-199: the sweep ends
SweepEnd ==
    /\ pc = "for_l"
    /\ ~(l < cfg.len_tests)
    /\ pc' = "done"
    /\ UNCHANGED <<cfg, l, buffer_len, buffer_count, i, f, start, report, iters, trials>>

Finish ==
    /\ SweepEnd
    /\ UNCHANGED <<sqw, biquads, buf, out, gen_buf, bq_before>>
    /\ UNCHANGED driverVars

Init == \E c \in ScaledCfgs : InitWith(c)

Next ==
    \/ StartTrial
    \/ StartClock
    \/ Fill
    \/ Filter
    \/ EndBuffer
    \/ EndTrial
    \/ NextTrial
    \/ Finish

Spec == Init /\ [][Next]_vars

----------------------------------------------------------------------------
(* The sweep with the program's own constants.  The buffer's contents take *)
(* no part in the control flow of main, so this specification follows      *)
(* main's loops and print_elapsed and leaves the samples out; the buffer   *)
(* loop (lines 177-187), which Spec takes turn by turn, is taken here in   *)
(* one step, up to the value of i at which its test fails.                 *)

SweepStartTrial ==
    /\ TrialSetUp
    /\ UNCHANGED <<sqw, biquads, buf, out, gen_buf, bq_before>>
    /\ UNCHANGED driverVars

SweepBuffers ==
    /\ pc = "for_i"
    /\ BufferLoopCond
    /\ iters' = iters + (buffer_count - i)
    /\ i' = buffer_count
    /\ UNCHANGED <<cfg, pc, l, buffer_len, buffer_count, f, start, report, trials>>
    /\ UNCHANGED <<sqw, biquads, buf, out, gen_buf, bq_before>>
    /\ UNCHANGED driverVars

SweepInit == InitWith(RealCfg)

SweepNext ==
    \/ SweepStartTrial
    \/ StartClock
    \/ SweepBuffers
    \/ EndTrial
    \/ NextTrial
    \/ Finish

SpecSweep == SweepInit /\ [][SweepNext]_vars

----------------------------------------------------------------------------
(* The functions called one at a time, in any order, on buffers of any     *)
(* length: fill_buffer, iir, SquareWave::reset and reset_biquads.          *)

\* fill_buffer(buf, sqw) on a buffer of n slots
CallFillBuffer(n) ==
    /\ LET r == FillBuffer(Zeros(n), sqw)
       IN  /\ buf' = r.buf
           /\ sqw' = r.sqw
           /\ gen_hist' = gen_hist \o r.buf
    /\ last_call' = [op |-> "fill_buffer", len |-> n]
    /\ UNCHANGED <<cfg, biquads, in_hist, out_hist, dirty_reset>>
    /\ UNCHANGED harnessVars

\* iir(buf, &biquads[k]) on the buffer as it stands
CallIir(k) ==
    /\ LET r == Iir(buf, biquads[k])
       IN  /\ buf' = r.buf
           /\ biquads' = [biquads EXCEPT ![k] = r.bq]
           /\ in_hist' = [in_hist EXCEPT ![k] = in_hist[k] \o buf]
           /\ out_hist' = [out_hist EXCEPT ![k] = out_hist[k] \o r.buf]
    /\ last_call' = [op |-> "iir", filter |-> k, input |-> buf, before |-> biquads[k]]
    /\ UNCHANGED <<cfg, sqw, gen_hist, dirty_reset>>
    /\ UNCHANGED harnessVars

\* sqw->reset()
CallSquareWaveReset ==
    /\ sqw' = SquareWaveReset(sqw)
    /\ gen_hist' = <<>>
    /\ dirty_reset' = [dirty_reset EXCEPT !.sqw = @ \/ gen_hist # <<>>]
    /\ last_call' = [op |-> "sqw_reset"]
    /\ UNCHANGED <<cfg, biquads, buf, in_hist, out_hist, ops>>
    /\ UNCHANGED harnessVars

\* reset_biquads(biquads)
CallResetBiquads ==
    /\ biquads' = ResetBiquads(biquads)
    /\ in_hist' = [k \in DOMAIN in_hist |-> <<>>]
    /\ out_hist' = [k \in DOMAIN out_hist |-> <<>>]
    /\ dirty_reset' = [dirty_reset EXCEPT
                          !.biquads = @ \/ \E k \in DOMAIN in_hist : in_hist[k] # <<>>]
    /\ last_call' = [op |-> "reset_biquads"]
    /\ UNCHANGED <<cfg, sqw, buf, gen_hist, ops>>
    /\ UNCHANGED harnessVars

DriverCfgs ==
    {c \in ScaledCfgs : c.len_tests = 1 /\ c.sample_count = 1 /\ c.filter_count = 2}

DriverFill == \E n \in 0..MaxLen : ops < MaxOps /\ CallFillBuffer(n) /\ ops' = ops + 1

DriverIir ==
    \E k \in DOMAIN biquads : ops < MaxOps /\ CallIir(k) /\ ops' = ops + 1

CallsInit == \E c \in DriverCfgs : InitWith(c)

CallsNext ==
    \/ DriverFill
    \/ DriverIir
    \/ CallSquareWaveReset
    \/ CallResetBiquads

SpecCalls == CallsInit /\ [][CallsNext]_vars

----------------------------------------------------------------------------
(* The generator alone, run for a little more than one period, with the    *)
(* program's frequency (50 Hz: 480 samples a half period) and with others. *)

GenFrequencies == {FREQUENCY} \cup ScaledFrequencies

GenCfgs ==
    {[RealCfg EXCEPT !.frequency = fr, !.filter_count = 1] : fr \in GenFrequencies}

GenFill ==
    \E n \in 1..MaxFill :
        /\ Len(gen_hist) <= 2 * sqw.switch_samples
        /\ CallFillBuffer(n)
        /\ UNCHANGED ops

GenInit == \E c \in GenCfgs : InitWith(c)

GenNext ==
    \/ GenFill
    \/ CallSquareWaveReset

SpecGen == GenInit /\ [][GenNext]_vars

----------------------------------------------------------------------------
(* Properties of the sweep (SpecSweep).                                    *)

SweepLengthsTo2048 == <<8, 16, 32, 64, 128, 256, 512, 1024, 2048>>

\* C1 as stated: the sweep runs exactly 9 trials, with buffer lengths 8, 16, ..., 2048
\* in that order, and no trial has a buffer length of 4096 or more.
C1_NineTrialsBelow4096 ==
    /\ \A t \in DOMAIN trials : trials[t] < 4096
    /\ pc = "done" => trials = SweepLengthsTo2048

\* C1 amended: the sweep runs exactly 10 trials, with buffer lengths 8, 16, ..., 2048,
\* 4096 in that order; no trial has a buffer length of 8192 or more.
C1_TenTrialsUpTo4096 ==
    /\ \A t \in DOMAIN trials : trials[t] < 8192
    /\ \A t \in DOMAIN trials : t > 1 => trials[t] = 2 * trials[t - 1]
    /\ trials # <<>> => trials[1] = 8
    /\ Len(trials) <= 10
    /\ pc = "done" => trials = Append(SweepLengthsTo2048, 4096)

C1_SweepDone == pc = "done" /\ Len(trials) = 10 /\ trials[10] = 4096

\* C10: every buffer length the sweep runs divides SAMPLE_COUNT, so each trial's
\* iterations times its buffer length is SAMPLE_COUNT, the divisor print_elapsed uses,
\* and every trial processes the same number of samples.
C10_EveryTrialProcessesSampleCount ==
    /\ cfg.sample_count = SAMPLE_COUNT
    /\ pc \in {"clock", "for_i", "printed"} =>
           /\ SAMPLE_COUNT % buffer_len = 0
           /\ buffer_count * buffer_len = SAMPLE_COUNT
    /\ pc = "printed" => iters * buffer_len = SAMPLE_COUNT

C10_LongestTrialPrinted == pc = "printed" /\ buffer_len = 4096 /\ iters = 128

\* the signal time a trial processes over the time it took, times `times`:
\* (sample_count / SAMPLE_RATE) / (elapsed / 1e9) * times
SignalTimeOverElapsed(times) ==
    RMul(RDiv(RDiv(RInt(cfg.sample_count), RInt(SAMPLE_RATE)),
              RDiv(RInt(report.elapsed), RInt(NANOS_PER_SECOND))),
         RInt(times))

ReportedDuration ==
    RDiv(RInt(report.elapsed), RMul(RInt(cfg.filter_count), RInt(cfg.sample_count)))

\* C3 as stated: the real-time factor is 1e9 / (elapsed / SAMPLE_COUNT) / SAMPLE_RATE,
\* the signal time processed over the elapsed time, and the duration is
\* elapsed / filter_count / SAMPLE_COUNT.
C3_RealtimeFromAllFilters ==
    pc = "printed" =>
        /\ report.duration = ReportedDuration
        /\ report.realtime = SignalTimeOverElapsed(1)

\* C3 amended: the real-time factor is 1e9 / duration / SAMPLE_RATE for the reported
\* duration elapsed / filter_count / SAMPLE_COUNT, which is filter_count times the
\* signal time processed over the elapsed time.
C3_RealtimeFromPerFilterDuration ==
    pc = "printed" =>
        /\ report.duration = ReportedDuration
        /\ report.realtime = SignalTimeOverElapsed(cfg.filter_count)
        /\ RMul(RMul(report.realtime, report.duration), RInt(SAMPLE_RATE))
               = RInt(NANOS_PER_SECOND)

C3_TrialReported ==
    pc = "printed" /\ report.elapsed > 1 /\ cfg.filter_count = FILTER_COUNT /\ Len(trials) > 1

----------------------------------------------------------------------------
(* Properties of the scaled harness (Spec).                                *)

\* C6: a trial with buffer length L >= 1 runs exactly floor(sample_count / L) turns of
\* the buffer loop: one when L is the budget, none when L exceeds it; never a negative
\* number, and L is never 0 where the count is computed.
C6_IterationCount ==
    /\ pc \in {"clock", "for_i", "for_f", "printed"} =>
           /\ buffer_len >= 1
           /\ iters >= 0
           /\ iters * buffer_len <= cfg.sample_count
    /\ pc = "printed" =>
           /\ cfg.sample_count < (iters + 1) * buffer_len
           /\ buffer_len = cfg.sample_count => iters = 1
           /\ buffer_len > cfg.sample_count => iters = 0

C6_TrialWithBufferBeyondBudget ==
    /\ pc = "printed"
    /\ buffer_len > cfg.sample_count
    /\ iters = 0
    /\ \E t \in DOMAIN trials : trials[t] = cfg.sample_count

\* the filter loop of main applied to a whole buffer: filters k, k+1, ... in turn
RECURSIVE CascadeWhole(_, _, _)
CascadeWhole(b, bqs, k) ==
    IF k > Len(bqs) THEN [buf |-> b, biquads |-> bqs]
    ELSE LET r == Iir(b, bqs[k])
         IN  CascadeWhole(r.buf, [bqs EXCEPT ![k] = r.bq], k + 1)

\* n samples generated and filtered in a single buffer by newly made objects
OneBuffer(n) ==
    LET g == FillBuffer(Zeros(n), SquareWave(cfg.frequency))
        c == CascadeWhole(g.buf, BuildBiquads(cfg.eq, cfg.filter_count), 1)
    IN  [buf |-> c.buf, sqw |-> g.sqw, biquads |-> c.biquads]

\* C2: after k buffers of length L of a trial, the k*L samples handed on, the generator
\* and the filters are those of one buffer of length k*L run from reset objects.
C2_BuffersAsOneBuffer ==
    pc = "for_i" =>
        LET one == OneBuffer(i * buffer_len)
        IN  /\ out = one.buf
            /\ sqw = one.sqw
            /\ biquads = one.biquads

C2_BudgetInSeveralBuffers ==
    /\ pc = "for_i"
    /\ i = buffer_count
    /\ i >= 2
    /\ buffer_len >= 2
    /\ i * buffer_len = cfg.sample_count
    /\ cfg.filter_count >= 2
    /\ Len(trials) >= 2

\* one sample through filters k .. n, each taking the one before's output
RECURSIVE StagesFrom(_, _, _, _)
StagesFrom(x, bqs, k, n) ==
    IF k > n THEN [y |-> x, bqs |-> bqs]
    ELSE LET r == IirSample(bqs[k], x)
         IN  StagesFrom(r.y, [bqs EXCEPT ![k] = r.bq], k + 1, n)

\* for each sample in turn, then for each of the first n filters
RECURSIVE PerSampleFrom(_, _, _, _)
PerSampleFrom(b, bqs, j, n) ==
    IF j > Len(b) THEN [buf |-> b, biquads |-> bqs]
    ELSE LET r == StagesFrom(b[j], bqs, 1, n)
         IN  PerSampleFrom([b EXCEPT ![j] = r.y], r.bqs, j + 1, n)

\* C7: the buffer and the filters that main's filter loop leaves (after its first f
\* filters, and so after all of them) are those of the iteration sample by sample, each
\* sample going through the filters in order.
C7_CascadeStageByStage ==
    pc = "for_f" =>
        LET r == PerSampleFrom(gen_buf, bq_before, 1, f)
        IN  /\ buf = r.buf
            /\ biquads = r.biquads

C7_CascadeDoneOnUsedFilters ==
    /\ pc = "for_f"
    /\ f = cfg.filter_count
    /\ f >= 2
    /\ Len(buf) >= 2
    /\ i >= 1
    /\ cfg.eq[TRUE] # cfg.eq[FALSE]

IsResetSquareWave(s) == s.status = FALSE /\ s.progress = 0

IsResetBiquad(bq) == bq.x1 = 0 /\ bq.x2 = 0 /\ bq.y1 = 0 /\ bq.y2 = 0

\* C9: when a trial's clock is read, and when its first fill_buffer begins, the
\* generator is (false, 0) and every filter has x1 = x2 = y1 = y2 = 0, whatever the
\* trial before left; and within a trial no step puts a used generator or a used
\* filter back to that state.
C9_ResetBeforeEachTrialOnly ==
    /\ [](pc = "clock" \/ (pc = "for_i" /\ i = 0) =>
              /\ IsResetSquareWave(sqw)
              /\ Len(biquads) = cfg.filter_count
              /\ \A k \in DOMAIN biquads : IsResetBiquad(biquads[k]))
    /\ [][pc # "for_l" =>
              /\ IsResetSquareWave(sqw') => IsResetSquareWave(sqw)
              /\ \A k \in DOMAIN biquads :
                     IsResetBiquad(biquads'[k]) => IsResetBiquad(biquads[k])]_vars

C9_LaterTrialStarts ==
    /\ pc = "for_i"
    /\ i = 0
    /\ Len(trials) >= 2
    /\ trials[Len(trials) - 1] <= cfg.sample_count
    /\ buffer_count >= 1
    /\ cfg.filter_count >= 2

----------------------------------------------------------------------------
(* Properties of the functions called in any order (SpecCalls).            *)

\* the j-th most recent element of a sequence (0: the last), 0 when there is none
FromEnd(h, j) == IF Len(h) > j THEN h[Len(h) - j] ELSE 0

\* C8: iir overwrites slot j, holding x, with b0*x + b1*x1 + b2*x2 - a1*y1 - a2*y2,
\* where x1, x2 are the two inputs before slot j and y1, y2 the two outputs before it
\* (those the filter held, for the first slots); afterwards x1, x2 are the last two
\* inputs the filter has seen, y1, y2 its last two outputs, the coefficients unchanged.
C8_IirRecurrence ==
    /\ last_call.op = "iir" =>
           LET b == last_call.before
               x == last_call.input
               n == Len(x)
               X(j) == IF j >= 1 THEN x[j] ELSE IF j = 0 THEN b.x1 ELSE b.x2
               Y(j) == IF j >= 1 THEN buf[j] ELSE IF j = 0 THEN b.y1 ELSE b.y2
           IN  /\ Len(buf) = n
               /\ \A j \in 1..n :
                      buf[j] = b.b0 * X(j) + b.b1 * X(j - 1) + b.b2 * X(j - 2)
                               - b.a1 * Y(j - 1) - b.a2 * Y(j - 2)
               /\ biquads[last_call.filter] =
                      [b EXCEPT !.x1 = X(n), !.x2 = X(n - 1), !.y1 = Y(n), !.y2 = Y(n - 1)]
    /\ \A k \in DOMAIN biquads :
           LET bq == biquads[k]
               c == PeakEq(cfg.eq, k % 2 = 1)
           IN  /\ bq.x1 = FromEnd(in_hist[k], 0)
               /\ bq.x2 = FromEnd(in_hist[k], 1)
               /\ bq.y1 = FromEnd(out_hist[k], 0)
               /\ bq.y2 = FromEnd(out_hist[k], 1)
               /\ <<bq.b0, bq.b1, bq.b2, bq.a1, bq.a2>> = <<c.b0, c.b1, c.b2, c.a1, c.a2>>

C8_IirOnUsedFilter ==
    /\ last_call.op = "iir"
    /\ Len(last_call.input) >= 2
    /\ last_call.before.x2 # 0
    /\ last_call.before.y2 # 0
    /\ last_call.before.y1 # last_call.before.y2

\* C4: what a generator writes after reset() is what a newly constructed generator
\* writes, and what a filter writes after reset() is what a newly derived filter with
\* the same coefficients writes for the same inputs; the objects end up equal too, so
\* reset restores status, progress, x1, x2, y1, y2 and changes nothing else.
C4_ResetIsAsNew ==
    /\ LET g == FillBuffer(Zeros(Len(gen_hist)), SquareWave(cfg.frequency))
       IN  /\ gen_hist = g.buf
           /\ sqw = g.sqw
    /\ \A k \in DOMAIN biquads :
           LET r == Iir(in_hist[k], PeakEq(cfg.eq, k % 2 = 1))
           IN  /\ out_hist[k] = r.buf
               /\ biquads[k] = r.bq
    /\ last_call.op = "sqw_reset" => sqw = SquareWave(cfg.frequency)
    /\ last_call.op = "reset_biquads" =>
           biquads = BuildBiquads(cfg.eq, cfg.filter_count)

C4_ReplayAfterReset ==
    /\ dirty_reset.sqw
    /\ dirty_reset.biquads
    /\ Len(gen_hist) >= 2
    /\ \E k \in DOMAIN biquads : Len(out_hist[k]) >= 2 /\ biquads[k].y2 # 0

----------------------------------------------------------------------------
(* Properties of the generator (SpecGen).                                  *)

\* C5: with half period H >= 1, the n-th sample since the last reset (n = 0, 1, ...) is
\* -0.5 when floor(n / H) is even and +0.5 when it is odd, however the samples are
\* split into buffers: two values only, period 2*H; for 50 Hz, H = 480, samples
\* 0-479 are -0.5, 480-959 are +0.5 and sample 960 is -0.5.
C5_SquareWaveSamples ==
    LET H == sqw.switch_samples
        S(n) == gen_hist[n + 1]
        N == Len(gen_hist)
    IN  /\ H >= 1
        /\ H = SwitchSamples(cfg.frequency)
        /\ \A n \in 0..(N - 1) :
               /\ S(n) = IF (n \div H) % 2 = 0 THEN -1 ELSE 1
               /\ n + H < N => S(n + H) = -S(n)
               /\ n + 2 * H < N => S(n + 2 * H) = S(n)
        /\ cfg.frequency = FREQUENCY =>
               /\ H = 480
               /\ \A n \in 0..(N - 1) :
                      /\ n <= 479 => S(n) = -1
                      /\ (480 <= n /\ n <= 959) => S(n) = 1
                      /\ n = 960 => S(n) = -1

C5_FullPeriodAt50Hz ==
    /\ cfg.frequency = FREQUENCY
    /\ Len(gen_hist) > 960
    /\ dirty_reset.sqw

====
